---------------------------- MODULE Spec2Model ----------------------------
(***************************************************************************)
(* Model of the headphone recommendation of MusicMatchApp                  *)
(* (src/main.py, generate_recommendations) over the catalog records of     *)
(* src/headphone.py and src/song.py.                                       *)
(*                                                                         *)
(* Units.  The program computes with Python floats; the model computes     *)
(* with integers in fixed units:                                           *)
(*   energy       hundredths          (0.85 is 85)                         *)
(*   loudness     whole decibels      (-2.0 is -2)                         *)
(*   price        whole currency units                                     *)
(*   user_rating  tenths              (4.5 is 45)                          *)
(*   score        tenths              (9.5 is 95)                          *)
(* An average sum/len is kept as the pair (sum, len) and compared with a   *)
(* threshold c by sum > c * len, which is sum/len > c for len > 0.  The    *)
(* values of the pools below are such that the float arithmetic of the     *)
(* program decides every comparison as exact arithmetic does: running      *)
(* lines 1050-1098 of src/main.py on every catalog, selection and use case *)
(* drawn here gives the ranked list, scores, tier lists, highlight and     *)
(* exceptions that this model computes.                                    *)
(*                                                                         *)
(* Strings that the program lower-cases (use cases) are sequences of       *)
(* one-character strings; strings it only compares with == (bass_level,    *)
(* sound_profile, the tier keys) are TLA+ strings.                         *)
(*                                                                         *)
(* Specifications.  Spec and PairSpec run generate_recommendations on      *)
(* catalogs and selections drawn from pools; ClassSpec runs the            *)
(* constructors of Headphone and Song and matches_use_case on raw values;  *)
(* AppSpec runs the handlers of the screens of MusicMatchApp from the      *)
(* welcome screen, on tables of rows of which some are refused by the      *)
(* constructors, with the load_songs thread of select_genre taken step by  *)
(* step; LoadSpec is AppSpec with the thread and the main loop scheduled;  *)
(* RestartSpec is the screens on a table with a genre of five songs.       *)
(***************************************************************************)
EXTENDS Integers, Sequences, FiniteSets, TLC

VARIABLES
    headphones,         \* self.headphones: the catalog, in load order
    selected_songs,     \* self.selected_songs
    selected_use_case,  \* self.selected_use_case
    scored_headphones,  \* generate_recommendations: the list after its sort
    recommendations,    \* generate_recommendations: tier key -> list
    most_reviewed,      \* generate_recommendations: the highlight, or None
    pc,                 \* "ready" | "shown" | "raised" | "made" | "answered"
    raised,             \* the exception that left the operation
    screen,             \* the screen on display (its handlers are enabled)
    selected_genre,     \* self.selected_genre
    filtered_songs,     \* self.filtered_songs: the Song objects of the genre
    loader,             \* the load_songs threads that are running
    loads,              \* the number of calls of select_genre so far
    after_queue,        \* show_song_selection calls queued by root.after
    current_display_songs,  \* self.current_display_songs
    song_search_var,    \* self.song_search_var: the text of the search entry
    headphones_df,      \* the rows of data/headphones.csv
    songs_df,           \* self.songs_df: the rows of data/spotify_songs.csv
    earlier,            \* history: an earlier call of generate_recommendations,
                        \* or the last restart
    raw,                \* the arguments of a constructor call
    made,               \* the object a constructor call returned
    asked,              \* the argument of matches_use_case
    answer              \* the value matches_use_case returned

\* the fields generate_recommendations reads
input_vars == << headphones, selected_songs, selected_use_case >>

\* what generate_recommendations computes and passes on
result_vars == << scored_headphones, recommendations, most_reviewed >>

\* the fields of the screens
app_vars == << screen, selected_genre, filtered_songs, loader, loads,
              after_queue, current_display_songs, song_search_var >>

\* the song list on display and the main loop's queue
display_vars == << after_queue, current_display_songs, song_search_var >>

\* the tables read by load_data
table_vars == << headphones_df, songs_df >>

\* calls of the methods of Headphone and Song
class_vars == << raw, made, asked, answer >>

vars == << headphones, selected_songs, selected_use_case, scored_headphones,
           recommendations, most_reviewed, pc, raised, screen, selected_genre,
           filtered_songs, loader, loads, after_queue, current_display_songs,
           song_search_var, headphones_df, songs_df, earlier, raw, made,
           asked, answer >>

----------------------------------------------------------------------------
(* Bounds of the model *)

\* longest catalog drawn
MaxCatalog == 4

\* longest selection drawn (the program's own limit is 5)
MaxSel == 6

\* most calls of select_genre in one run of the screens
MaxLoads == 2

----------------------------------------------------------------------------
(* Strings *)

\* str.lower on one character: the upper-case letters map to lower case,
\* every other character is kept
LowerChar(c) ==
    LET up == [ A |-> "a", B |-> "b", C |-> "c", D |-> "d", E |-> "e",
                F |-> "f", G |-> "g", H |-> "h", I |-> "i", J |-> "j",
                K |-> "k", L |-> "l", M |-> "m", N |-> "n", O |-> "o",
                P |-> "p", Q |-> "q", R |-> "r", S |-> "s", T |-> "t",
                U |-> "u", V |-> "v", W |-> "w", X |-> "x", Y |-> "y",
                Z |-> "z" ]
    IN  IF c \in DOMAIN up THEN up[c] ELSE c

\* str.lower
Lower(s) == [ i \in 1..Len(s) |-> LowerChar(s[i]) ]

\* Python's None, for selected_use_case (no string has a two-letter character)
None == << "None" >>

\* Python's None, for most_reviewed
NoHeadphone == [ headphone_id |-> 0 ]

\* "Workout" and "workout" as the program's strings
Str_Workout == << "W", "o", "r", "k", "o", "u", "t" >>
Str_workout == << "w", "o", "r", "k", "o", "u", "t" >>
Str_Studio  == << "S", "t", "u", "d", "i", "o" >>

\* the other labels of the use case screen
Str_Casual  == << "C", "a", "s", "u", "a", "l" >>
Str_Gaming  == << "G", "a", "m", "i", "n", "g" >>

\* "Work": a proper prefix of "Workout"
Str_Work    == << "W", "o", "r", "k" >>
Str_Empty   == << >>

----------------------------------------------------------------------------
(* Sequences *)

\* the set of the elements of a list
Range(s) == { s[i] : i \in 1..Len(s) }

\* s[:n]
Take(s, n) == SubSeq(s, 1, IF Len(s) < n THEN Len(s) ELSE n)

\* s reversed
Reverse(s) == [ i \in 1..Len(s) |-> s[Len(s) + 1 - i] ]

\* the elements of a set of records with an oid, listed by increasing oid
RECURSIVE ByOid(_)
ByOid(T) ==
    IF T = {} THEN << >>
    ELSE LET last == CHOOSE x \in T : \A y \in T : y.oid <= x.oid
         IN  Append(ByOid(T \ {last}), last)

\* the elements of a set of Headphone records, listed by increasing id
RECURSIVE ByHeadphoneId(_)
ByHeadphoneId(T) ==
    IF T = {} THEN << >>
    ELSE LET last == CHOOSE x \in T :
                         \A y \in T : y.headphone_id <= x.headphone_id
         IN  Append(ByHeadphoneId(T \ {last}), last)

----------------------------------------------------------------------------
(* The records the model draws its inputs from *)

\* Song (src/song.py), its numeric fields (tempo in whole beats per minute,
\* danceability, valence and acousticness in hundredths).  oid tells
\* two Song objects apart: the class defines no __eq__, so `song in
\* selected_songs` compares identities.  Song 7 is a second object for the
\* row of song 1 (select_genre builds new Song objects for every row each
\* time a genre is chosen).  Songs 1..5 together have mean loudness -2.0 and
\* mean energy 0.85.
SongPool ==
    { [ oid |-> 1, track_id |-> "t1", energy |-> 100, loudness |-> -2,
        tempo |-> 120, danceability |-> 80, valence |-> 70,
        acousticness |-> 10, track_popularity |-> 75 ],
      [ oid |-> 2, track_id |-> "t2", energy |-> 80,  loudness |-> 0,
        tempo |-> 100, danceability |-> 50, valence |-> 60,
        acousticness |-> 20, track_popularity |-> 50 ],
      [ oid |-> 3, track_id |-> "t3", energy |-> 75,  loudness |-> -1,
        tempo |-> 128, danceability |-> 90, valence |-> 80,
        acousticness |-> 5, track_popularity |-> 80 ],
      [ oid |-> 4, track_id |-> "t4", energy |-> 70,  loudness |-> -2,
        tempo |-> 90, danceability |-> 40, valence |-> 30,
        acousticness |-> 60, track_popularity |-> 20 ],
      [ oid |-> 5, track_id |-> "t5", energy |-> 100, loudness |-> -5,
        tempo |-> 140, danceability |-> 70, valence |-> 90,
        acousticness |-> 0, track_popularity |-> 100 ],
      [ oid |-> 6, track_id |-> "t6", energy |-> 0,   loudness |-> -12,
        tempo |-> 60, danceability |-> 10, valence |-> 5,
        acousticness |-> 95, track_popularity |-> 0 ],
      [ oid |-> 7, track_id |-> "t1", energy |-> 100, loudness |-> -2,
        tempo |-> 120, danceability |-> 80, valence |-> 70,
        acousticness |-> 10, track_popularity |-> 75 ] }

\* a song with the energy and loudness of song 2 and with another tempo,
\* danceability, valence, acousticness and popularity
TwinSong ==
    [ oid |-> 8, track_id |-> "t8", energy |-> 80, loudness |-> 0,
      tempo |-> 170, danceability |-> 95, valence |-> 10,
      acousticness |-> 80, track_popularity |-> 5 ]

\* Headphone (src/headphone.py), the fields generate_recommendations reads.
\* Headphone 7 has a use case that is only a part of "Workout".  Headphones
\* 1, 6 and 3 have the same user_rating * user_reviews (900), one in each
\* price band; headphones 4 and 5 have the same product (420) in one band.
HeadphonePool ==
    { [ headphone_id |-> 1, price |-> 120, use_case |-> Str_Workout,
        bass_level |-> "High", sound_profile |-> "Bass-heavy",
        user_rating |-> 45, user_reviews |-> 200 ],
      [ headphone_id |-> 2, price |-> 150, use_case |-> Str_Workout,
        bass_level |-> "Medium", sound_profile |-> "Balanced",
        user_rating |-> 45, user_reviews |-> 100 ],
      [ headphone_id |-> 3, price |-> 400, use_case |-> Str_workout,
        bass_level |-> "Low", sound_profile |-> "Flat",
        user_rating |-> 40, user_reviews |-> 225 ],
      [ headphone_id |-> 4, price |-> 300, use_case |-> Str_Workout,
        bass_level |-> "High", sound_profile |-> "Flat",
        user_rating |-> 35, user_reviews |-> 120 ],
      [ headphone_id |-> 5, price |-> 275, use_case |-> Str_Workout,
        bass_level |-> "Low", sound_profile |-> "Bass-heavy",
        user_rating |-> 35, user_reviews |-> 120 ],
      [ headphone_id |-> 6, price |-> 401, use_case |-> Str_Workout,
        bass_level |-> "Medium", sound_profile |-> "Flat",
        user_rating |-> 50, user_reviews |-> 180 ],
      [ headphone_id |-> 7, price |-> 149, use_case |-> Str_Work,
        bass_level |-> "Medium", sound_profile |-> "Flat",
        user_rating |-> 50, user_reviews |-> 500 ] }

\* the catalogs drawn: at most MaxCatalog rows of the headphone table, in
\* the order of the table or in the reverse order (load_data appends one
\* Headphone per row, in row order)
Catalogs ==
    LET rows == { ByHeadphoneId(T) :
                    T \in { U \in SUBSET HeadphonePool :
                              Cardinality(U) <= MaxCatalog } }
    IN  rows \cup { Reverse(r) : r \in rows }

\* the selections drawn: at most MaxSel distinct Song objects, listed by oid
\* (the result reads the selection only through len and the two sums)
Selections ==
    { ByOid(T) : T \in { U \in SUBSET SongPool : Cardinality(U) <= MaxSel } }

\* the use cases drawn: a label, the empty string, or none chosen
UseCases == { Str_workout, Str_Empty, None }

----------------------------------------------------------------------------
(* Headphone, src/headphone.py *)

\* get_category with the lower boundary put in the budget tier
get_category_BudgetInclusive(hp) ==
    IF hp.price <= 150 THEN "Budget-Friendly"
    ELSE IF hp.price > 400 THEN "Best of the Line"
    ELSE "Best of Both"

\* Headphone.get_category
get_category(hp) ==
    IF hp.price < 150 THEN "Budget-Friendly"
    ELSE IF hp.price > 400 THEN "Best of the Line"
    ELSE "Best of Both"

----------------------------------------------------------------------------
(* generate_recommendations, src/main.py *)

\* sum([s.energy for s in songs])
RECURSIVE SumEnergy(_)
SumEnergy(songs) ==
    IF songs = << >> THEN 0 ELSE songs[1].energy + SumEnergy(Tail(songs))

\* sum([s.loudness for s in songs])
RECURSIVE SumLoudness(_)
SumLoudness(songs) ==
    IF songs = << >> THEN 0 ELSE songs[1].loudness + SumLoudness(Tail(songs))

\* a filter that also accepts a headphone whose use case is an initial part
\* of the requested one
MatchingHeadphones_Partial(catalog, use_case) ==
    SelectSeq(catalog,
              LAMBDA hp :
                  /\ Len(hp.use_case) <= Len(use_case)
                  /\ Lower(hp.use_case)
                         = SubSeq(Lower(use_case), 1, Len(hp.use_case)))

\* no filter at all
MatchingHeadphones_NoFilter(catalog, use_case) == catalog

\* sum([s.tempo for s in songs])
RECURSIVE SumTempo(_)
SumTempo(songs) ==
    IF songs = << >> THEN 0 ELSE songs[1].tempo + SumTempo(Tail(songs))

\* matching_headphones: the catalog entries whose lower-cased use case is the
\* lower-cased selected use case, in catalog order
MatchingHeadphones(catalog, use_case) ==
    SelectSeq(catalog, LAMBDA hp : Lower(hp.use_case) = Lower(use_case))

\* the bass chain with a catch-all of 1 in place of its Medium branch
BassBonus_CatchAll(bass_sum, n, hp) ==
    IF bass_sum > (-4) * n /\ hp.bass_level = "High" THEN 3
    ELSE IF bass_sum < (-7) * n /\ hp.bass_level = "Low" THEN 3
    ELSE 1

\* the first if/elif chain of the scoring loop; avg_bass is bass_sum / n
BassBonus(bass_sum, n, hp) ==
    IF bass_sum > (-4) * n /\ hp.bass_level = "High" THEN 3
    ELSE IF bass_sum < (-7) * n /\ hp.bass_level = "Low" THEN 3
    ELSE IF hp.bass_level = "Medium" THEN 2
    ELSE 0

\* an energy chain whose first test reads the mean tempo of the selection
EnergyBonus_ByTempo(energy_sum, n, hp) ==
    IF SumTempo(selected_songs) > 120 * Len(selected_songs)
           /\ hp.sound_profile = "Bass-heavy" THEN 2
    ELSE IF energy_sum < 40 * n /\ hp.sound_profile = "Flat" THEN 2
    ELSE 1

\* the energy chain without its else branch
EnergyBonus_NoElse(energy_sum, n, hp) ==
    IF energy_sum > 70 * n /\ hp.sound_profile = "Bass-heavy" THEN 2
    ELSE IF energy_sum < 40 * n /\ hp.sound_profile = "Flat" THEN 2
    ELSE 0

\* the second if/elif/else chain of the scoring loop; avg_energy is
\* energy_sum / n, in hundredths
EnergyBonus(energy_sum, n, hp) ==
    IF energy_sum > 70 * n /\ hp.sound_profile = "Bass-heavy" THEN 2
    ELSE IF energy_sum < 40 * n /\ hp.sound_profile = "Flat" THEN 2
    ELSE 1

\* the score with the rating counted twice
Score_DoubleRating(energy_sum, bass_sum, n, hp) ==
    10 * (BassBonus(bass_sum, n, hp) + EnergyBonus(energy_sum, n, hp))
        + 2 * hp.user_rating

\* the score of one headphone, in tenths: the two bonuses, then
\* score += hp.user_rating
Score(energy_sum, bass_sum, n, hp) ==
    10 * (BassBonus(bass_sum, n, hp) + EnergyBonus(energy_sum, n, hp))
        + hp.user_rating

\* a scored list that is not emptied between two calls
ScoreAll_KeepsEarlier(matching, energy_sum, bass_sum, n) ==
    scored_headphones
        \o [ i \in 1..Len(matching) |->
               [ hp |-> matching[i],
                 score |-> Score(energy_sum, bass_sum, n, matching[i]) ] ]

\* scored_headphones before the sort: (hp, score) for every matching
\* headphone, in catalog order
ScoreAll(matching, energy_sum, bass_sum, n) ==
    [ i \in 1..Len(matching) |->
        [ hp |-> matching[i],
          score |-> Score(energy_sum, bass_sum, n, matching[i]) ] ]

\* an insertion that puts x before the entries of equal score (a sort that
\* is descending but not stable)
SortInsert_BeforeEqual(sorted, x) ==
    LET k == Cardinality({ i \in 1..Len(sorted) : sorted[i].score > x.score })
    IN  SubSeq(sorted, 1, k) \o << x >> \o SubSeq(sorted, k + 1, Len(sorted))

\* list.sort(key=lambda x: x[1], reverse=True): descending by score and
\* stable, so entries of equal score keep their order
SortInsert(sorted, x) ==
    LET k == Cardinality({ i \in 1..Len(sorted) : sorted[i].score >= x.score })
    IN  SubSeq(sorted, 1, k) \o << x >> \o SubSeq(sorted, k + 1, Len(sorted))

RECURSIVE SortByScore(_)
SortByScore(scored) ==
    IF scored = << >> THEN << >>
    ELSE SortInsert(SortByScore(SubSeq(scored, 1, Len(scored) - 1)),
                    scored[Len(scored)])

\* [hp for hp, score in scored ...]
HpOf(scored) == [ i \in 1..Len(scored) |-> scored[i].hp ]

\* budget = [hp for hp, score in scored_headphones if hp.price < 150][:3]
Budget(scored) ==
    Take(HpOf(SelectSeq(scored, LAMBDA x : x.hp.price < 150)), 3)

\* the premium list with the upper boundary included
Premium_Inclusive(scored) ==
    Take(HpOf(SelectSeq(scored, LAMBDA x : x.hp.price >= 400)), 3)

\* premium = [hp for hp, score in scored_headphones if hp.price > 400][:3]
Premium(scored) ==
    Take(HpOf(SelectSeq(scored, LAMBDA x : x.hp.price > 400)), 3)

\* the balanced list without its [:3]
Balanced_NoCut(scored) ==
    HpOf(SelectSeq(scored, LAMBDA x : 150 <= x.hp.price /\ x.hp.price <= 400))

\* balanced = [hp ... if 150 <= hp.price <= 400][:3]
Balanced(scored) ==
    Take(HpOf(SelectSeq(scored,
                        LAMBDA x : 150 <= x.hp.price /\ x.hp.price <= 400)), 3)

\* the keys of the recommendations dict
TierKeys == { "Budget-Friendly", "Best of the Line", "Best of Both" }

\* recommendations = {"Budget-Friendly": budget, "Best of the Line": premium,
\*                    "Best of Both": balanced}
Recommendations(scored) ==
    [ k \in TierKeys |->
        IF k = "Budget-Friendly" THEN Budget(scored)
        ELSE IF k = "Best of the Line" THEN Premium(scored)
        ELSE Balanced(scored) ]

\* all_recommended = budget + premium + balanced
AllRecommended(recs) ==
    recs["Budget-Friendly"] \o recs["Best of the Line"] \o recs["Best of Both"]

\* a key that counts the reviews only
ReviewKey_ReviewsOnly(hp) == hp.user_reviews

\* the key of max: hp.user_rating * hp.user_reviews (in tenths)
ReviewKey(hp) == hp.user_rating * hp.user_reviews

\* a maximum that keeps the last of the elements with the greatest key
RECURSIVE MaxFrom_LastMaximal(_, _, _)
MaxFrom_LastMaximal(all, i, best) ==
    IF i > Len(all) THEN best
    ELSE MaxFrom_LastMaximal(all, i + 1,
                 IF ReviewKey(all[i]) >= ReviewKey(best) THEN all[i] ELSE best)

\* max(all_recommended, key=...): the first element with the greatest key
RECURSIVE MaxFrom(_, _, _)
MaxFrom(all, i, best) ==
    IF i > Len(all) THEN best
    ELSE MaxFrom(all, i + 1,
                 IF ReviewKey(all[i]) > ReviewKey(best) THEN all[i] ELSE best)

\* most_reviewed = max(...) if all_recommended else None
MostReviewed(all) ==
    IF all = << >> THEN NoHeadphone ELSE MaxFrom(all, 2, all[1])

\* the recommendations dict of a run that has not produced one
NoRecommendations == [ k \in TierKeys |-> << >> ]

----------------------------------------------------------------------------
(* generate_recommendations as a step *)

\* no earlier call
NoCall == [ made |-> FALSE ]

\* no constructor arguments, no object
NoRaw == [ class |-> "none" ]
NoObject == [ class |-> "none" ]

\* no call of generate_recommendations has been made
NoCallYet ==
    /\ scored_headphones = << >>
    /\ recommendations = NoRecommendations
    /\ most_reviewed = NoHeadphone
    /\ pc = "ready"
    /\ raised = "none"
    /\ earlier = NoCall

\* the use case screen is on display, no genre having been loaded
AtUseCaseScreen ==
    /\ screen = "use_case"
    /\ selected_genre = None
    /\ filtered_songs = << >>
    /\ loader = << >>
    /\ loads = 0
    /\ after_queue = 0
    /\ current_display_songs = << >>
    /\ song_search_var = None

\* no table has been read
NoTables ==
    /\ headphones_df = << >>
    /\ songs_df = << >>

\* no method of Headphone or Song is being called
NoClassCall ==
    /\ raw = NoRaw
    /\ made = NoObject
    /\ asked = None
    /\ answer = FALSE

Init ==
    /\ headphones \in Catalogs
    /\ selected_songs \in Selections
    /\ selected_use_case \in UseCases
    /\ NoCallYet
    /\ AtUseCaseScreen
    /\ NoTables
    /\ NoClassCall

\* generate_recommendations fails in the division by len(selected_songs)
RaisesZeroDivision(songs) == Len(songs) = 0

\* generate_recommendations fails in self.selected_use_case.lower(), which the
\* filter evaluates once per catalog entry
RaisesAttributeError(catalog, use_case) == catalog # << >> /\ use_case = None

\* what a call of generate_recommendations comes to: the exception that
\* leaves it, or the arguments it passes to show_recommendations
Outcome(catalog, songs, use_case) ==
    IF RaisesZeroDivision(songs)
    THEN [ pc |-> "raised", raised |-> "ZeroDivisionError" ]
    ELSE IF RaisesAttributeError(catalog, use_case)
    THEN [ pc |-> "raised", raised |-> "AttributeError" ]
    ELSE LET n == Len(songs)
             energy_sum == SumEnergy(songs)
             bass_sum == SumLoudness(songs)
             matching == MatchingHeadphones(catalog, use_case)
             scored == SortByScore(ScoreAll(matching, energy_sum, bass_sum, n))
             recs == Recommendations(scored)
         IN  [ pc |-> "shown", raised |-> "none",
               scored_headphones |-> scored,
               recommendations |-> recs,
               most_reviewed |-> MostReviewed(AllRecommended(recs)) ]

\* the effect of a call on the model's record of it and on the screen:
\* show_recommendations replaces the screen, an exception leaves it
Deliver(out) ==
    /\ pc' = out.pc
    /\ IF out.pc = "shown"
       THEN /\ scored_headphones' = out.scored_headphones
            /\ recommendations' = out.recommendations
            /\ most_reviewed' = out.most_reviewed
            /\ screen' = "results"
            /\ UNCHANGED raised
       ELSE /\ raised' = out.raised
            /\ UNCHANGED << result_vars, screen >>

\* MusicMatchApp.generate_recommendations, up to its call of
\* show_recommendations
generate_recommendations ==
    /\ pc = "ready"
    /\ screen = "use_case"
    /\ Deliver(Outcome(headphones, selected_songs, selected_use_case))
    /\ UNCHANGED << table_vars, display_vars >>
    /\ UNCHANGED << input_vars, selected_genre, filtered_songs, loader, loads,
                    earlier, class_vars >>

Next == generate_recommendations

Spec == Init /\ [][Next]_vars

----------------------------------------------------------------------------
(* Two calls of generate_recommendations, one after the other *)

\* the headphones of the table with the given ids, in table order
HeadphonesById(ids) ==
    ByHeadphoneId({ hp \in HeadphonePool : hp.headphone_id \in ids })

\* the catalogs drawn for two calls
PairCatalogs ==
    { HeadphonesById({1, 2, 4, 6}), Reverse(HeadphonesById({2, 4, 5, 7})),
      << >> }

\* the selections drawn for two calls: five Song objects, the twin of song 2
\* among those to choose from
PairSelections ==
    { ByOid(T) : T \in { U \in SUBSET (SongPool \cup {TwinSong}) :
                           Cardinality(U) = 5 } }

\* the use cases drawn for two calls
PairUseCases == { Str_workout, Str_Work }

PairInit ==
    /\ headphones \in PairCatalogs
    /\ selected_songs \in PairSelections
    /\ selected_use_case \in PairUseCases
    /\ NoCallYet
    /\ AtUseCaseScreen
    /\ NoTables
    /\ NoClassCall

\* what is kept of a call that has ended: what it read and what it came to
CallRecord ==
    [ made |-> TRUE,
      headphones |-> headphones,
      selected_songs |-> selected_songs,
      selected_use_case |-> selected_use_case,
      pc |-> pc,
      raised |-> raised,
      scored_headphones |-> scored_headphones,
      recommendations |-> recommendations,
      most_reviewed |-> most_reviewed ]

\* after a first call has ended the use case screen is up again with a
\* selection and a use case of the caller's choice (the same or others), the
\* catalog being the one loaded at start; what the first call left behind
\* stays where it is
call_again(songs, use_case) ==
    /\ pc \in {"shown", "raised"}
    /\ earlier = NoCall
    /\ earlier' = CallRecord
    /\ selected_songs' = songs
    /\ selected_use_case' = use_case
    /\ screen' = "use_case"
    /\ pc' = "ready"
    /\ UNCHANGED << table_vars, display_vars >>
    /\ UNCHANGED << headphones, result_vars, raised, selected_genre,
                    filtered_songs, loader, loads, class_vars >>

PairNext ==
    \/ generate_recommendations
    \/ \E songs \in PairSelections, use_case \in PairUseCases :
           call_again(songs, use_case)

PairSpec == PairInit /\ [][PairNext]_vars

----------------------------------------------------------------------------
(* Raw values and their conversions, src/headphone.py and src/song.py *)

\* The values a constructor may be given for a field, by Python type.  A
\* float is held in hundredths.  RNaN is float('nan'), which pandas gives for
\* an empty cell.
RInt(n) == [ kind |-> "int", n |-> n ]
RFloat(h) == [ kind |-> "float", hundredths |-> h ]
RText(s) == [ kind |-> "str", s |-> s ]
RBool(b) == [ kind |-> "bool", b |-> b ]
RNaN == [ kind |-> "nan" ]
RNone == [ kind |-> "NoneType" ]

\* a parameter for which the call gives no argument
RMissing == [ kind |-> "missing" ]

\* a == b of Python for two such values (a NaN equals nothing)
PyEq(a, b) ==
    /\ a.kind = b.kind
    /\ CASE a.kind = "int" -> a.n = b.n
         [] a.kind = "float" -> a.hundredths = b.hundredths
         [] a.kind = "str" -> a.s = b.s
         [] a.kind = "bool" -> a.b = b.b
         [] a.kind = "nan" -> FALSE
         [] OTHER -> TRUE

DigitChars == << "0", "1", "2", "3", "4", "5", "6", "7", "8", "9" >>

IsDigit(c) == \E d \in 1..10 : DigitChars[d] = c

DigitValue(c) == (CHOOSE d \in 1..10 : DigitChars[d] = c) - 1

\* the number a string of digits denotes
RECURSIVE DigitsValue(_)
DigitsValue(s) ==
    IF s = << >> THEN 0
    ELSE 10 * DigitsValue(SubSeq(s, 1, Len(s) - 1)) + DigitValue(s[Len(s)])

AllDigits(s) == \A i \in 1..Len(s) : IsDigit(s[i])

\* str.strip for blanks, which float() and int() apply to a string
RECURSIVE Strip(_)
Strip(s) ==
    IF s = << >> THEN s
    ELSE IF s[1] = " " THEN Strip(Tail(s))
    ELSE IF s[Len(s)] = " " THEN Strip(SubSeq(s, 1, Len(s) - 1))
    ELSE s

\* the sign of a stripped literal and what follows the sign
SignOf(t) == IF t # << >> /\ t[1] = "-" THEN -1 ELSE 1
Unsigned(t) == IF t # << >> /\ t[1] \in {"-", "+"} THEN Tail(t) ELSE t

\* the position of the first "." of a string, or 0
FirstDot(t) ==
    IF \E i \in 1..Len(t) : t[i] = "."
    THEN CHOOSE i \in 1..Len(t) : t[i] = "." /\ \A j \in 1..(i - 1) : t[j] # "."
    ELSE 0

\* float(s) for a string: blanks stripped, an optional sign, digits with at
\* most one "." among them and at least one digit.  The result is in
\* hundredths (the strings drawn have at most two decimals).  The other
\* forms float() accepts (exponents, "inf", "nan", underscores) are not drawn.
FloatOfText(s) ==
    LET t == Unsigned(Strip(s))
        dot == FirstDot(t)
        whole == IF dot = 0 THEN t ELSE SubSeq(t, 1, dot - 1)
        frac == IF dot = 0 THEN << >> ELSE SubSeq(t, dot + 1, Len(t))
        frac2 == SubSeq(frac \o << "0", "0" >>, 1, 2)
    IN  IF AllDigits(whole) /\ AllDigits(frac) /\ Len(whole) + Len(frac) > 0
        THEN [ exc |-> "none", nan |-> FALSE,
               val |-> SignOf(Strip(s))
                           * (100 * DigitsValue(whole) + DigitsValue(frac2)) ]
        ELSE [ exc |-> "ValueError" ]

\* int(s) for a string: blanks stripped, an optional sign, digits only
IntOfText(s) ==
    LET t == Unsigned(Strip(s))
    IN  IF t # << >> /\ AllDigits(t)
        THEN [ exc |-> "none", val |-> SignOf(Strip(s)) * DigitsValue(t) ]
        ELSE [ exc |-> "ValueError" ]

\* the marker of a float that is NaN
NaN == "nan"

\* float(x): the value in hundredths, or that it is NaN, or the exception
float(x) ==
    CASE x.kind = "int" ->
             [ exc |-> "none", nan |-> FALSE, val |-> 100 * x.n ]
      [] x.kind = "float" ->
             [ exc |-> "none", nan |-> FALSE, val |-> x.hundredths ]
      [] x.kind = "bool" ->
             [ exc |-> "none", nan |-> FALSE, val |-> IF x.b THEN 100 ELSE 0 ]
      [] x.kind = "nan" -> [ exc |-> "none", nan |-> TRUE ]
      [] x.kind = "str" -> FloatOfText(x.s)
      [] OTHER -> [ exc |-> "TypeError" ]

\* h / 100 rounded towards zero
TruncHundredths(h) == IF h >= 0 THEN h \div 100 ELSE -((-h) \div 100)

\* int(x): the integer, or the exception (a float is truncated, NaN refused)
int(x) ==
    CASE x.kind = "int" -> [ exc |-> "none", val |-> x.n ]
      [] x.kind = "float" ->
             [ exc |-> "none", val |-> TruncHundredths(x.hundredths) ]
      [] x.kind = "bool" -> [ exc |-> "none", val |-> IF x.b THEN 1 ELSE 0 ]
      [] x.kind = "nan" -> [ exc |-> "ValueError" ]
      [] x.kind = "str" -> IntOfText(x.s)
      [] OTHER -> [ exc |-> "TypeError" ]

\* a float field in the unit the model keeps it in: hundredths / per (the
\* values drawn are whole in that unit), NaN kept as NaN
InUnit(f, per) ==
    IF f.nan THEN NaN
    ELSE IF f.val >= 0 THEN f.val \div per ELSE -((-f.val) \div per)

\* the first exception of a list of conversion results, "none" without one
RECURSIVE FirstException(_)
FirstException(rs) ==
    IF rs = << >> THEN "none"
    ELSE IF rs[1].exc # "none" THEN rs[1].exc
    ELSE FirstException(Tail(rs))

----------------------------------------------------------------------------
(* Headphone and Song, src/headphone.py and src/song.py *)

\* the strings the constructors' callers compare raw values with
Str_Yes == << "Y", "e", "s" >>
Str_yes == << "y", "e", "s" >>
Str_YES == << "Y", "E", "S" >>
Str_No  == << "N", "o" >>

\* a noise_cancellation that is true for "Yes" in any letter case
NoiseCancellation_AnyCase(x) == x.kind = "str" /\ Lower(x.s) = Lower(Str_Yes)

\* noise_cancellation == "Yes"
NoiseCancellation(x) == PyEq(x, RText(Str_Yes))

\* the parameters of Headphone.__init__ whose arguments are drawn as raw
\* values; the others always get an argument here.  No parameter has a
\* default.
RawParameters ==
    { "price", "noise_cancellation", "user_rating", "user_reviews" }

\* the parameters that the call leaves without an argument
MissingArguments(r) == { f \in RawParameters : r[f].kind = "missing" }

\* Headphone.__init__ on the arguments raw: the exception that leaves it, or
\* the object.  A parameter without an argument makes the call itself raise
\* TypeError before the body runs.  In the body float(price) is evaluated
\* first, then float(user_rating), then int(user_reviews).
Headphone__init__(r) ==
    LET price == float(r.price)
        user_rating == float(r.user_rating)
        user_reviews == int(r.user_reviews)
        exc == FirstException(<< price, user_rating, user_reviews >>)
    IN  IF MissingArguments(r) # {} THEN [ exc |-> "TypeError" ]
        ELSE IF exc # "none" THEN [ exc |-> exc ]
        ELSE [ exc |-> "none",
               obj |-> [ class |-> "Headphone",
                         headphone_id |-> r.headphone_id,
                         brand |-> r.brand,
                         model |-> r.model,
                         price |-> InUnit(price, 100),
                         hp_type |-> r.hp_type,
                         use_case |-> r.use_case,
                         bass_level |-> r.bass_level,
                         sound_profile |-> r.sound_profile,
                         noise_cancellation |->
                             NoiseCancellation(r.noise_cancellation),
                         user_rating |-> InUnit(user_rating, 10),
                         user_reviews |-> user_reviews.val ] ]

\* a comparison that tells letter case apart
matches_use_case_CaseSensitive(hp, use_case) == hp.use_case = use_case

\* Headphone.matches_use_case
matches_use_case(hp, use_case) == Lower(hp.use_case) = Lower(use_case)

\* Song.__init__ on the arguments raw: int(track_popularity), then the six
\* float() calls in the order of the source
Song__init__(r) ==
    LET track_popularity == int(r.track_popularity)
        danceability == float(r.danceability)
        energy == float(r.energy)
        valence == float(r.valence)
        tempo == float(r.tempo)
        acousticness == float(r.acousticness)
        loudness == float(r.loudness)
        exc == FirstException(<< track_popularity, danceability, energy,
                                 valence, tempo, acousticness, loudness >>)
    IN  IF exc # "none" THEN [ exc |-> exc ]
        ELSE [ exc |-> "none",
               obj |-> [ class |-> "Song",
                         track_id |-> r.track_id,
                         track_name |-> r.track_name,
                         track_artist |-> r.track_artist,
                         track_popularity |-> track_popularity.val,
                         danceability |-> InUnit(danceability, 1),
                         energy |-> InUnit(energy, 1),
                         valence |-> InUnit(valence, 1),
                         tempo |-> InUnit(tempo, 100),
                         acousticness |-> InUnit(acousticness, 1),
                         loudness |-> InUnit(loudness, 100) ] ]

\* the arguments drawn for Headphone(...)
T_399 == << "3", "9", "9" >>
T_abc == << "a", "b", "c" >>
T_4p5 == << "4", ".", "5" >>
T_na == << "n", "/", "a" >>
T_12p5 == << "1", "2", ".", "5" >>
T_blank_120 == << " ", "1", "2", "0", " " >>
T_0p85 == << "0", ".", "8", "5" >>
T_minus5 == << "-", "5", ".", "0" >>
T_empty == << >>

HeadphoneRaws ==
    { [ class |-> "Headphone", headphone_id |-> 1, brand |-> "Sony",
        model |-> "WH-1000XM5", price |-> p, hp_type |-> "Over-ear",
        use_case |-> u, bass_level |-> "Medium",
        sound_profile |-> "Balanced", noise_cancellation |-> nc,
        user_rating |-> ra, user_reviews |-> rv ] :
        p \in { RInt(300), RText(T_399), RText(T_abc), RNaN, RNone },
        u \in { Str_Workout, Str_workout, Str_Studio },
        nc \in { RText(Str_Yes), RText(Str_yes), RText(Str_YES), RText(Str_No),
                 RBool(TRUE), RNaN },
        ra \in { RFloat(450), RText(T_4p5), RText(T_na) },
        rv \in { RInt(200), RText(T_blank_120), RText(T_12p5), RNaN } }

\* the calls of test_headphone_creation and test_headphone_matches_use_case:
\* nine values, none for user_rating and user_reviews
NineValueRaws ==
    { [ class |-> "Headphone", headphone_id |-> 1, brand |-> "Sony",
        model |-> "WH-1000XM5", price |-> RInt(399), hp_type |-> "Over-ear",
        use_case |-> Str_Casual, bass_level |-> "Medium",
        sound_profile |-> "Balanced", noise_cancellation |-> RText(Str_Yes),
        user_rating |-> RMissing, user_reviews |-> RMissing ],
      [ class |-> "Headphone", headphone_id |-> 1, brand |-> "Sony",
        model |-> "Model", price |-> RInt(300), hp_type |-> "Over-ear",
        use_case |-> Str_Workout, bass_level |-> "High",
        sound_profile |-> "Bass-heavy", noise_cancellation |-> RText(Str_Yes),
        user_rating |-> RMissing, user_reviews |-> RMissing ] }

\* the arguments of test_song_creation, as raw values
GoodSongRaw ==
    [ class |-> "Song", track_id |-> "123",
      track_name |-> << "T", "e", "s", "t", " ", "S", "o", "n", "g" >>,
      track_artist |-> << "T", "e", "s", "t", " ", "A", "r", "t", "i", "s",
                          "t" >>,
      track_popularity |-> RInt(75), danceability |-> RFloat(80),
      energy |-> RFloat(90), valence |-> RFloat(70), tempo |-> RInt(120),
      acousticness |-> RFloat(10), loudness |-> RFloat(-500) ]

SongNumberFields ==
    { "track_popularity", "danceability", "energy", "valence", "tempo",
      "acousticness", "loudness" }

\* the fields of a Song that the model keeps in hundredths
SongFractionFields == { "danceability", "energy", "valence", "acousticness" }

\* the arguments drawn for Song(...): those of the test with one numeric
\* field replaced ("0.85" only in a field kept in hundredths)
SongRaws ==
    { [ GoodSongRaw EXCEPT ![f] = x ] :
        f \in SongNumberFields,
        x \in { RInt(50), RText(T_minus5), RText(T_abc), RText(T_empty),
                RNaN, RNone } }
    \cup { [ GoodSongRaw EXCEPT ![f] = RText(T_0p85) ] :
             f \in SongFractionFields }

\* the strings drawn as the argument of matches_use_case
AskedCases ==
    { Str_Workout, Str_workout, Str_Studio, Str_Work, Str_Empty,
      << "W", "O", "R", "K", "O", "U", "T" >> }

\* a state in which no screen and no call of the engine matter
NoApp ==
    /\ headphones = << >>
    /\ selected_songs = << >>
    /\ selected_use_case = None
    /\ NoCallYet
    /\ AtUseCaseScreen
    /\ NoTables

ClassInit ==
    /\ raw \in HeadphoneRaws \cup NineValueRaws \cup SongRaws
    /\ made = NoObject
    /\ asked = None
    /\ answer = FALSE
    /\ NoApp

\* the effect of a constructor call
Construct(result) ==
    IF result.exc = "none"
    THEN /\ made' = result.obj
         /\ pc' = "made"
         /\ UNCHANGED raised
    ELSE /\ raised' = result.exc
         /\ pc' = "raised"
         /\ UNCHANGED made

\* a call Headphone(...) with the arguments raw
new_Headphone ==
    /\ pc = "ready"
    /\ raw.class = "Headphone"
    /\ Construct(Headphone__init__(raw))
    /\ UNCHANGED table_vars
    /\ UNCHANGED << input_vars, result_vars, app_vars, earlier, raw, asked,
                    answer >>

\* a call Song(...) with the arguments raw
new_Song ==
    /\ pc = "ready"
    /\ raw.class = "Song"
    /\ Construct(Song__init__(raw))
    /\ UNCHANGED table_vars
    /\ UNCHANGED << input_vars, result_vars, app_vars, earlier, raw, asked,
                    answer >>

\* a call hp.matches_use_case(use_case) on the headphone made
call_matches_use_case(use_case) ==
    /\ pc = "made"
    /\ made.class = "Headphone"
    /\ asked' = use_case
    /\ answer' = matches_use_case(made, use_case)
    /\ pc' = "answered"
    /\ UNCHANGED table_vars
    /\ UNCHANGED << input_vars, result_vars, app_vars, earlier, raw, made,
                    raised >>

ClassNext ==
    \/ new_Headphone
    \/ new_Song
    \/ \E use_case \in AskedCases : call_matches_use_case(use_case)

ClassSpec == ClassInit /\ [][ClassNext]_vars

----------------------------------------------------------------------------
(* The screens, src/main.py *)

\* genres of the song table
Genre_pop == << "p", "o", "p" >>
Genre_rock == << "r", "o", "c", "k" >>

\* track_name and track_artist of the rows: "X" is found in the names of
\* rows 1 and 2 when letter case is ignored, "z" in the artist of row 5
TrackNames ==
    << << "A", "x" >>, << "b", "X" >>, << "C" >>, << "D" >>, << "E" >>,
       << "F" >> >>

TrackArtists ==
    << << "W" >>, << "W" >>, << "W" >>, << "W" >>, << "Z", "e", "d" >>,
       << "W" >> >>

\* the values of Song i of SongPool as a row of the song table
SongRow(i, genre) ==
    LET sg == CHOOSE x \in SongPool : x.oid = i
    IN  [ class |-> "Song", track_id |-> sg.track_id,
          track_name |-> TrackNames[i], track_artist |-> TrackArtists[i],
          playlist_genre |-> genre,
          track_popularity |-> RInt(sg.track_popularity),
          danceability |-> RFloat(sg.danceability),
          energy |-> RFloat(sg.energy),
          valence |-> RFloat(sg.valence),
          tempo |-> RInt(sg.tempo),
          acousticness |-> RFloat(sg.acousticness),
          loudness |-> RFloat(100 * sg.loudness) ]

\* rows that Song(...) refuses: an energy that is no number, an empty
\* popularity cell
BadSongRow_Energy(genre) ==
    [ SongRow(1, genre) EXCEPT !.track_id = "t91", !.energy = RText(T_abc) ]

BadSongRow_Popularity(genre) ==
    [ SongRow(2, genre) EXCEPT !.track_id = "t92", !.track_popularity = RNaN ]

\* the song tables drawn (both shorter than the 100 rows of one batch of the
\* song list): three good rows per genre, with a refused row between them,
\* before them or after them
SongTables ==
    { << SongRow(1, Genre_pop), BadSongRow_Energy(Genre_pop),
         SongRow(4, Genre_rock), SongRow(2, Genre_pop),
         SongRow(5, Genre_rock), SongRow(3, Genre_pop),
         SongRow(6, Genre_rock), BadSongRow_Popularity(Genre_rock) >>,
      << BadSongRow_Popularity(Genre_pop), SongRow(1, Genre_pop),
         SongRow(2, Genre_pop), SongRow(3, Genre_pop),
         SongRow(4, Genre_rock), SongRow(5, Genre_rock),
         SongRow(6, Genre_rock) >> }

\* songs_df['playlist_genre'].unique()
unique_genres(table) == { table[i].playlist_genre : i \in 1..Len(table) }

\* genre_df: the places in the table of the rows of the genre, in table order
GenreRows(table, genre) ==
    LET RECURSIVE From(_)
        From(i) ==
            IF i > Len(table) THEN << >>
            ELSE IF table[i].playlist_genre = genre
            THEN << i >> \o From(i + 1)
            ELSE From(i + 1)
    IN  From(1)

\* the Song object made from row number i of the table by load number n:
\* new objects at every load, told apart by oid
NewSong(obj, i, n) == ("oid" :> (10 * n + i)) @@ obj

\* a loop in which a refused row throws away the songs loaded before it
LoadRow_FailureDropsLoaded(songs, row, i, n) ==
    IF Song__init__(row).exc # "none" THEN << >>
    ELSE Append(songs, NewSong(Song__init__(row).obj, i, n))

\* one turn of the loop of load_songs on row number i of the table: the Song
\* made from the row is appended, a row that Song(...) refuses is passed over
LoadRow(songs, row, i, n) ==
    IF Song__init__(row).exc # "none" THEN songs
    ELSE Append(songs, NewSong(Song__init__(row).obj, i, n))

\* Headphone i of HeadphonePool as a row of the headphone table
HeadphoneRow(i) ==
    LET hp == CHOOSE x \in HeadphonePool : x.headphone_id = i
    IN  [ class |-> "Headphone", headphone_id |-> i, brand |-> "Sony",
          model |-> "WH-1000XM5", price |-> RInt(hp.price),
          hp_type |-> "Over-ear", use_case |-> hp.use_case,
          bass_level |-> hp.bass_level, sound_profile |-> hp.sound_profile,
          noise_cancellation |-> RText(Str_Yes),
          user_rating |-> RFloat(10 * hp.user_rating),
          user_reviews |-> RInt(hp.user_reviews) ]

\* rows that Headphone(...) refuses: a price that is no number, a review
\* count with a decimal point
BadHeadphoneRow_Price ==
    [ HeadphoneRow(3) EXCEPT !.headphone_id = 91, !.price = RText(T_abc) ]

BadHeadphoneRow_Reviews ==
    [ HeadphoneRow(4) EXCEPT !.headphone_id = 92,
                             !.user_reviews = RText(T_12p5) ]

\* the headphone tables drawn
HeadphoneTables ==
    { << HeadphoneRow(1), BadHeadphoneRow_Price, HeadphoneRow(2),
         HeadphoneRow(6), HeadphoneRow(7) >>,
      << BadHeadphoneRow_Reviews, HeadphoneRow(7), HeadphoneRow(4),
         HeadphoneRow(5), BadHeadphoneRow_Price >>,
      << BadHeadphoneRow_Price >>,
      << >> }

\* load_data, the loop over the rows of headphones.csv: one Headphone per
\* row in table order, a row that Headphone(...) refuses being passed over
LoadHeadphones(table) ==
    LET RECURSIVE From(_)
        From(i) ==
            IF i > Len(table) THEN << >>
            ELSE IF Headphone__init__(table[i]).exc # "none" THEN From(i + 1)
            ELSE << Headphone__init__(table[i]).obj >> \o From(i + 1)
    IN  From(1)

\* the labels of the cards of the use case screen
use_cases == { Str_Workout, Str_Casual, Str_Studio, Str_Gaming }

\* the text the search entry shows while nothing is typed
Placeholder ==
    << "S", "e", "a", "r", "c", "h", " ", "s", "o", "n", "g", "s", " ", "o",
       "r", " ", "a", "r", "t", "i", "s", "t", "s", ".", ".", "." >>

\* the texts drawn for the search entry
SearchTexts == { Str_Empty, Placeholder, << "X" >>, << "z" >> }

\* sub in s
Contains(sub, s) ==
    \E i \in 0..(Len(s) - Len(sub)) : SubSeq(s, i + 1, i + Len(sub)) = sub

\* on_search_change: the songs whose name or artist has the search term
Found(songs, search_term) ==
    SelectSeq(songs, LAMBDA sg :
        \/ Contains(Lower(search_term), Lower(sg.track_name))
        \/ Contains(Lower(search_term), Lower(sg.track_artist)))

\* a search term is typed: neither empty nor the placeholder
Searching(search_term) ==
    search_term # Str_Empty /\ search_term # Placeholder

\* on_search_change: the list it stores and displays
SearchResult(songs, search_term) ==
    IF Searching(search_term) THEN Take(Found(songs, search_term), 100)
    ELSE Take(songs, 100)

\* MusicMatchApp.__init__, load_data done: the welcome screen
AppInit ==
    /\ headphones_df \in HeadphoneTables
    /\ songs_df \in SongTables
    /\ headphones = LoadHeadphones(headphones_df)
    /\ selected_songs = << >>
    /\ selected_use_case = None
    /\ selected_genre = None
    /\ filtered_songs = << >>
    /\ current_display_songs = << >>
    /\ song_search_var = None
    /\ screen = "welcome"
    /\ loader = << >>
    /\ after_queue = 0
    /\ loads = 0
    /\ NoCallYet
    /\ NoClassCall

\* GET STARTED on the welcome screen, BACK on the song screen
show_genre_selection ==
    /\ screen \in {"welcome", "songs"}
    /\ screen' = "genre"
    /\ UNCHANGED << table_vars, display_vars >>
    /\ UNCHANGED << input_vars, result_vars, pc, raised, selected_genre,
                    filtered_songs, loader, loads, earlier, class_vars >>

\* a select_genre that leaves the genre cards on display
select_genre_NoLoadingScreen(genre) ==
    /\ screen = "genre"
    /\ loads < MaxLoads
    /\ selected_genre' = genre
    /\ UNCHANGED screen
    /\ loader' = Append(loader, [ genre |-> genre, load |-> loads + 1,
                                  rows |-> << >>, k |-> 0 ])
    /\ loads' = loads + 1
    /\ UNCHANGED << table_vars, display_vars >>
    /\ UNCHANGED << input_vars, result_vars, pc, raised, filtered_songs, earlier,
                    class_vars >>

\* a select_genre that starts the new genre with an empty selection
select_genre_ClearsSelection(genre) ==
    /\ screen = "genre"
    /\ loads < MaxLoads
    /\ selected_genre' = genre
    /\ screen' = "loading"
    /\ selected_songs' = << >>
    /\ loader' = Append(loader, [ genre |-> genre, load |-> loads + 1,
                                  rows |-> << >>, k |-> 0 ])
    /\ loads' = loads + 1
    /\ UNCHANGED << table_vars, display_vars >>
    /\ UNCHANGED << headphones, selected_use_case, result_vars, pc, raised,
                    filtered_songs, earlier, class_vars >>

\* a click on a genre card: the loading screen, which has nothing to click,
\* and a load_songs thread started
select_genre(genre) ==
    /\ screen = "genre"
    /\ loads < MaxLoads
    /\ selected_genre' = genre
    /\ screen' = "loading"
    /\ loader' = Append(loader, [ genre |-> genre, load |-> loads + 1,
                                  rows |-> << >>, k |-> 0 ])
    /\ loads' = loads + 1
    /\ UNCHANGED << table_vars, display_vars >>
    /\ UNCHANGED << input_vars, result_vars, pc, raised, filtered_songs, earlier,
                    class_vars >>

\* what a step of a load_songs thread leaves alone
LoaderFrame ==
    UNCHANGED << input_vars, result_vars, pc, raised, screen, selected_genre,
                 loads, current_display_songs, song_search_var, earlier,
                 table_vars, class_vars >>

\* thread t of load_songs: genre_df taken, self.filtered_songs = []
load_songs_begin(t) ==
    /\ loader[t].k = 0
    /\ filtered_songs' = << >>
    /\ loader' = [ loader EXCEPT
                     ![t].rows = GenreRows(songs_df, loader[t].genre),
                     ![t].k = 1 ]
    /\ UNCHANGED after_queue
    /\ LoaderFrame

\* thread t of load_songs: one turn of its loop
load_songs_row(t) ==
    /\ loader[t].k \in 1..Len(loader[t].rows)
    /\ LET i == loader[t].rows[loader[t].k]
       IN  filtered_songs' =
               LoadRow(filtered_songs, songs_df[i], i, loader[t].load)
    /\ loader' = [ loader EXCEPT ![t].k = @ + 1 ]
    /\ UNCHANGED after_queue
    /\ LoaderFrame

\* thread t of load_songs: root.after(0, self.show_song_selection), and the
\* thread ends
load_songs_end(t) ==
    /\ loader[t].k > Len(loader[t].rows)
    /\ after_queue' = after_queue + 1
    /\ loader' = [ j \in 1..(Len(loader) - 1) |->
                     IF j < t THEN loader[j] ELSE loader[j + 1] ]
    /\ UNCHANGED filtered_songs
    /\ LoaderFrame

\* what show_song_selection does: the song screen with a new search entry
\* showing the placeholder, and the first 100 songs of the genre
SongScreen ==
    /\ screen' = "songs"
    /\ song_search_var' = Placeholder
    /\ current_display_songs' = Take(filtered_songs, 100)
    /\ UNCHANGED << input_vars, result_vars, pc, raised, selected_genre,
                    filtered_songs, loader, loads, earlier, table_vars,
                    class_vars >>

\* show_song_selection run by the main loop for a load_songs thread
after_show_song_selection ==
    /\ after_queue > 0
    /\ after_queue' = after_queue - 1
    /\ SongScreen

\* show_song_selection run by BACK on the use case screen
show_song_selection ==
    /\ screen = "use_case"
    /\ UNCHANGED after_queue
    /\ SongScreen

\* the text of the search entry changes (typed, or cleared and restored by
\* the entry getting and losing the focus), and on_search_change runs
on_search_change(text) ==
    /\ screen = "songs"
    /\ song_search_var' = text
    /\ current_display_songs' = SearchResult(filtered_songs, text)
    /\ UNCHANGED << input_vars, result_vars, pc, raised, screen, selected_genre,
                    filtered_songs, loader, loads, after_queue, earlier,
                    table_vars, class_vars >>

\* LOAD MORE, a button of the song list while it shows some songs and fewer
\* than the genre has
load_more_songs ==
    /\ screen = "songs"
    /\ current_display_songs # << >>
    /\ Len(current_display_songs) < Len(filtered_songs)
    /\ LET current_count == Len(current_display_songs)
           next_batch == SubSeq(filtered_songs, current_count + 1,
                                IF current_count + 100 < Len(filtered_songs)
                                THEN current_count + 100
                                ELSE Len(filtered_songs))
       IN  current_display_songs' = current_display_songs \o next_batch
    /\ UNCHANGED << input_vars, result_vars, pc, raised, screen, selected_genre,
                    filtered_songs, loader, loads, after_queue,
                    song_search_var, earlier, table_vars, class_vars >>

\* list.remove(song): the first occurrence taken out
Remove(songs, song) ==
    LET i == CHOOSE k \in 1..Len(songs) :
                 songs[k] = song /\ \A j \in 1..(k - 1) : songs[j] # song
    IN  SubSeq(songs, 1, i - 1) \o SubSeq(songs, i + 1, Len(songs))

\* a toggle without the limit of 5
Toggled_NoLimit(songs, song) ==
    IF song \in Range(songs) THEN Remove(songs, song)
    ELSE Append(songs, song)

\* toggle_song_selection_list: the selection it leaves
Toggled(songs, song) ==
    IF song \in Range(songs) THEN Remove(songs, song)
    ELSE IF Len(songs) >= 5 THEN songs
    ELSE Append(songs, song)

\* a click on a row of the song list.  Unless the limit of 5 refuses the
\* click, the list is displayed again: through on_search_change when a
\* search term is typed
toggle_song_selection_list(song) ==
    /\ screen = "songs"
    /\ song \in Range(current_display_songs)
    /\ selected_songs' = Toggled(selected_songs, song)
    /\ IF /\ song \notin Range(selected_songs) => Len(selected_songs) < 5
          /\ Searching(song_search_var)
       THEN current_display_songs' =
                SearchResult(filtered_songs, song_search_var)
       ELSE UNCHANGED current_display_songs
    /\ UNCHANGED << headphones, selected_use_case, result_vars, pc, raised,
                    screen, selected_genre, filtered_songs, loader, loads,
                    after_queue, song_search_var, earlier, table_vars,
                    class_vars >>

\* a CONTINUE that does not count the selected songs
validate_and_show_use_case_NoCount ==
    /\ screen = "songs"
    /\ screen' = "use_case"
    /\ UNCHANGED << table_vars, display_vars >>
    /\ UNCHANGED << input_vars, result_vars, pc, raised, selected_genre,
                    filtered_songs, loader, loads, earlier, class_vars >>

\* CONTINUE on the song screen
validate_and_show_use_case ==
    /\ screen = "songs"
    /\ IF Len(selected_songs) < 5
       THEN UNCHANGED screen
       ELSE screen' = "use_case"
    /\ UNCHANGED << table_vars, display_vars >>
    /\ UNCHANGED << input_vars, result_vars, pc, raised, selected_genre,
                    filtered_songs, loader, loads, earlier, class_vars >>

\* a click on a use case card: the use case stored, then
\* generate_recommendations
select_use_case(use_case) ==
    /\ screen = "use_case"
    /\ selected_use_case' = use_case
    /\ Deliver(Outcome(headphones, selected_songs, use_case))
    /\ UNCHANGED << table_vars, display_vars >>
    /\ UNCHANGED << headphones, selected_songs, selected_genre, filtered_songs,
                    loader, loads, earlier, class_vars >>

\* what is kept of a restart: the number of loads made before it
RestartRecord == [ made |-> TRUE, loads |-> loads ]

\* a restart that loads the tables again
restart_LoadsAgain ==
    /\ screen = "results"
    /\ headphones' = headphones \o headphones
    /\ selected_genre' = None
    /\ selected_songs' = << >>
    /\ selected_use_case' = None
    /\ filtered_songs' = << >>
    /\ current_display_songs' = << >>
    /\ screen' = "welcome"
    /\ scored_headphones' = << >>
    /\ recommendations' = NoRecommendations
    /\ most_reviewed' = NoHeadphone
    /\ pc' = "ready"
    /\ raised' = "none"
    /\ earlier' = RestartRecord
    /\ UNCHANGED << loader, loads, after_queue, song_search_var, table_vars,
                    class_vars >>

\* a restart that keeps the selected songs
restart_KeepsSelection ==
    /\ screen = "results"
    /\ selected_genre' = None
    /\ selected_use_case' = None
    /\ filtered_songs' = << >>
    /\ current_display_songs' = << >>
    /\ screen' = "welcome"
    /\ scored_headphones' = << >>
    /\ recommendations' = NoRecommendations
    /\ most_reviewed' = NoHeadphone
    /\ pc' = "ready"
    /\ raised' = "none"
    /\ earlier' = RestartRecord
    /\ UNCHANGED << headphones, selected_songs, loader, loads, after_queue,
                    song_search_var, table_vars, class_vars >>

\* START OVER on the results screen.  The results screen is gone with it:
\* what the last call passed to show_recommendations is dropped.
restart ==
    /\ screen = "results"
    /\ selected_genre' = None
    /\ selected_songs' = << >>
    /\ selected_use_case' = None
    /\ filtered_songs' = << >>
    /\ current_display_songs' = << >>
    /\ screen' = "welcome"
    /\ scored_headphones' = << >>
    /\ recommendations' = NoRecommendations
    /\ most_reviewed' = NoHeadphone
    /\ pc' = "ready"
    /\ raised' = "none"
    /\ earlier' = RestartRecord
    /\ UNCHANGED << headphones, loader, loads, after_queue, song_search_var,
                    table_vars, class_vars >>

AppNext ==
    \/ show_genre_selection
    \/ \E genre \in unique_genres(songs_df) : select_genre(genre)
    \/ \E t \in 1..Len(loader) : load_songs_begin(t)
    \/ \E t \in 1..Len(loader) : load_songs_row(t)
    \/ \E t \in 1..Len(loader) : load_songs_end(t)
    \/ after_show_song_selection
    \/ show_song_selection
    \/ \E text \in SearchTexts : on_search_change(text)
    \/ load_more_songs
    \/ \E song \in Range(current_display_songs) :
           toggle_song_selection_list(song)
    \/ validate_and_show_use_case
    \/ \E use_case \in use_cases : select_use_case(use_case)
    \/ restart

AppSpec == AppInit /\ [][AppNext]_vars

\* a step of a load_songs thread
load_songs ==
    \E t \in 1..Len(loader) :
        load_songs_begin(t) \/ load_songs_row(t) \/ load_songs_end(t)

\* the screens with a load_songs thread that is scheduled until it ends and
\* a main loop that runs the callbacks handed to root.after(0, ...)
LoadSpec ==
    /\ AppSpec
    /\ WF_vars(load_songs)
    /\ WF_vars(after_show_song_selection)

\* a song table with a genre of five songs, so that one load is enough for a
\* selection, and a headphone table
LongSongTable ==
    << SongRow(1, Genre_pop), SongRow(2, Genre_pop), SongRow(3, Genre_pop),
       BadSongRow_Energy(Genre_pop), SongRow(4, Genre_pop),
       SongRow(5, Genre_pop), SongRow(6, Genre_rock) >>

RestartCatalogTable ==
    << HeadphoneRow(1), BadHeadphoneRow_Price, HeadphoneRow(2),
       HeadphoneRow(6), HeadphoneRow(7) >>

\* the welcome screen of an application started on these tables
RestartInit ==
    /\ headphones_df = RestartCatalogTable
    /\ songs_df = LongSongTable
    /\ headphones = LoadHeadphones(headphones_df)
    /\ selected_songs = << >>
    /\ selected_use_case = None
    /\ selected_genre = None
    /\ filtered_songs = << >>
    /\ current_display_songs = << >>
    /\ song_search_var = None
    /\ screen = "welcome"
    /\ loader = << >>
    /\ after_queue = 0
    /\ loads = 0
    /\ NoCallYet
    /\ NoClassCall

\* the screens on tables with which a run can follow a restart
RestartSpec == RestartInit /\ [][AppNext]_vars

----------------------------------------------------------------------------
(* Vocabulary of the properties *)

\* the call of generate_recommendations has ended, either way
Called == pc # "ready"

\* the call reached show_recommendations with a result
Shown == pc = "shown"

\* the call ended by raising InvalidSelectionError and produced no result
RaisedInvalidSelection ==
    /\ pc = "raised"
    /\ raised = "InvalidSelectionError"
    /\ recommendations = NoRecommendations
    /\ most_reviewed = NoHeadphone

\* two entries of the selection carry the same track_id
HasDuplicateTrack(songs) ==
    \E i, j \in 1..Len(songs) : i < j /\ songs[i].track_id = songs[j].track_id

\* five songs, no two with the same track_id
ValidSelection(songs) == Len(songs) = 5 /\ ~HasDuplicateTrack(songs)

\* a use case was chosen and is not the empty string
UseCaseGiven == selected_use_case # None /\ selected_use_case # Str_Empty

\* the price tier as section 3 of the specification words it
TierOfPrice(price) ==
    CASE price < 150 -> "Budget-Friendly"
      [] price > 400 -> "Best of the Line"
      [] 150 <= price /\ price <= 400 -> "Best of Both"

\* the headphones of the ranked list whose price lies in tier k
RankedInTier(k) ==
    { scored_headphones[i].hp : i \in { j \in 1..Len(scored_headphones) :
          TierOfPrice(scored_headphones[j].hp.price) = k } }

----------------------------------------------------------------------------
(* C1 *)

\* C1: the price tier is Budget-Friendly below 150, Best of the Line above
\* 400 and Best of Both from 150 to 400 inclusive, in Headphone.get_category
\* (for every headphone of the catalog) and in the bucketing of
\* generate_recommendations (a tier list holds only ranked headphones of its
\* price band, and all of them when it holds fewer than three); a headphone
\* priced exactly 150 or exactly 400 is Best of Both.
C1_PriceTier ==
    /\ \A i \in 1..Len(headphones) :
          LET hp == headphones[i]
          IN  /\ get_category(hp) = TierOfPrice(hp.price)
              /\ hp.price \in {150, 400} => get_category(hp) = "Best of Both"
    /\ Shown =>
          \A k \in TierKeys :
              /\ Range(recommendations[k]) \subseteq RankedInTier(k)
              /\ Len(recommendations[k]) < 3 =>
                     Range(recommendations[k]) = RankedInTier(k)

\* C1 witness: a result whose Best of Both list holds a headphone priced
\* exactly 150 and one priced exactly 400
C1_Witness ==
    /\ Shown
    /\ \E i, j \in 1..Len(recommendations["Best of Both"]) :
          /\ recommendations["Best of Both"][i].price = 150
          /\ recommendations["Best of Both"][j].price = 400
          /\ get_category(recommendations["Best of Both"][i]) = "Best of Both"
          /\ get_category(recommendations["Best of Both"][j]) = "Best of Both"

----------------------------------------------------------------------------
(* C2 *)

\* C2 (as claimed): a call with a selection whose size is not 5, a use case
\* being chosen, raises InvalidSelectionError and produces no result.
C2_SizeRaisesInvalidSelection ==
    (Called /\ Len(selected_songs) # 5 /\ UseCaseGiven)
        => RaisedInvalidSelection

----------------------------------------------------------------------------
(* C3 *)

\* C3 (as claimed): a call with five songs of which two carry the same
\* track_id, a use case being chosen, raises InvalidSelectionError and
\* produces no result.
C3_DuplicateRaisesInvalidSelection ==
    (Called /\ Len(selected_songs) = 5 /\ HasDuplicateTrack(selected_songs)
            /\ UseCaseGiven)
        => RaisedInvalidSelection

----------------------------------------------------------------------------
(* C4 *)

\* C4 (as claimed): a call with five distinct songs and an empty or missing
\* use case raises InvalidSelectionError, no other exception, and produces
\* no result.
C4_NoUseCaseRaisesInvalidSelection ==
    (Called /\ ValidSelection(selected_songs) /\ ~UseCaseGiven)
        => RaisedInvalidSelection

----------------------------------------------------------------------------
(* Scores as the properties read them off the ranked list *)

\* the selection's sums; the means are these over Len(selected_songs)
EnergySum == SumEnergy(selected_songs)
LoudnessSum == SumLoudness(selected_songs)
NumSelected == Len(selected_songs)

\* Scenario A of section 8: mean loudness -2.0, mean energy 0.85 over five
\* distinct songs, use case "workout"
ScenarioA ==
    /\ ValidSelection(selected_songs)
    /\ LoudnessSum = (-2) * 5
    /\ EnergySum = 85 * 5
    /\ selected_use_case = Str_workout

\* the headphone of Scenario A
IsScenarioHeadphone(hp) ==
    /\ hp.bass_level = "High"
    /\ hp.sound_profile = "Bass-heavy"
    /\ hp.user_rating = 45
    /\ hp.price = 120
    /\ hp.use_case = Str_Workout

\* the part of entry i's score that the bass chain added, in tenths
BassPart(i) ==
    LET e == scored_headphones[i]
    IN  e.score - e.hp.user_rating
            - 10 * EnergyBonus(EnergySum, NumSelected, e.hp)

\* the part of entry i's score that the energy chain added, in tenths
EnergyPart(i) ==
    LET e == scored_headphones[i]
    IN  e.score - e.hp.user_rating
            - 10 * BassBonus(LoudnessSum, NumSelected, e.hp)

\* mean loudness > -4, mean loudness < -7, mean energy > 0.7, mean energy < 0.4
Loud == LoudnessSum > (-4) * NumSelected
Quiet == LoudnessSum < (-7) * NumSelected
Energetic == EnergySum > 70 * NumSelected
Calm == EnergySum < 40 * NumSelected

\* the bass bonus as section 4.2 words it: 3, 3, otherwise 1
ClaimedBassBonus(hp) ==
    IF Loud /\ hp.bass_level = "High" THEN 3
    ELSE IF Quiet /\ hp.bass_level = "Low" THEN 3
    ELSE 1

\* the energy bonus as section 4.2 words it: 2, 2, otherwise none
ClaimedEnergyBonus(hp) ==
    IF Energetic /\ hp.sound_profile = "Bass-heavy" THEN 2
    ELSE IF Calm /\ hp.sound_profile = "Flat" THEN 2
    ELSE 0

\* the bass bonus as amended: 3, 3, 2 for Medium bass, otherwise none
AmendedBassBonus(hp) ==
    CASE Loud /\ hp.bass_level = "High" -> 3
      [] ~Loud /\ Quiet /\ hp.bass_level = "Low" -> 3
      [] hp.bass_level = "Medium" -> 2
      [] OTHER -> 0

\* the energy bonus as amended: 2, 2, otherwise 1
AmendedEnergyBonus(hp) ==
    CASE Energetic /\ hp.sound_profile = "Bass-heavy" -> 2
      [] ~Energetic /\ Calm /\ hp.sound_profile = "Flat" -> 2
      [] OTHER -> 1

----------------------------------------------------------------------------
(* C5 *)

----------------------------------------------------------------------------
(* C6 *)

----------------------------------------------------------------------------
(* C7 *)

----------------------------------------------------------------------------
(* C8 *)

\* the position of a headphone in the catalog (catalog entries are distinct)
CatalogIndex(hp) == CHOOSE i \in 1..Len(headphones) : headphones[i] = hp

\* the catalog entries whose use case is the selected one, letter case aside
FilteredSet ==
    { headphones[i] : i \in { j \in 1..Len(headphones) :
          Lower(headphones[j].use_case) = Lower(selected_use_case) } }

\* C8: the ranked list holds every filtered headphone once, no entry precedes
\* one of higher score, and of two entries of equal score the one earlier in
\* the catalog comes first.
C8_RankedStableDescending ==
    Shown =>
        /\ Len(scored_headphones) = Cardinality(FilteredSet)
        /\ { scored_headphones[i].hp : i \in 1..Len(scored_headphones) }
               = FilteredSet
        /\ \A i, j \in 1..Len(scored_headphones) :
              i < j =>
                  /\ scored_headphones[i].score >= scored_headphones[j].score
                  /\ scored_headphones[i].score = scored_headphones[j].score
                         => CatalogIndex(scored_headphones[i].hp)
                                < CatalogIndex(scored_headphones[j].hp)

\* C8 witness: five distinct songs were scored; two ranked headphones tie and
\* keep their catalog order, and a third was moved ahead of a headphone that
\* precedes it in the catalog
C8_Witness ==
    /\ Shown
    /\ ValidSelection(selected_songs)
    /\ \E i, j \in 1..Len(scored_headphones) :
          /\ i < j
          /\ scored_headphones[i].score = scored_headphones[j].score
          /\ CatalogIndex(scored_headphones[i].hp)
                 < CatalogIndex(scored_headphones[j].hp)
    /\ \E i, j \in 1..Len(scored_headphones) :
          /\ i < j
          /\ scored_headphones[i].score > scored_headphones[j].score
          /\ CatalogIndex(scored_headphones[i].hp)
                 > CatalogIndex(scored_headphones[j].hp)

----------------------------------------------------------------------------
(* C9 *)

\* the positions of the ranked list whose headphone is priced in tier k
RankedPositions(k) ==
    { i \in 1..Len(scored_headphones) :
          TierOfPrice(scored_headphones[i].hp.price) = k }

\* the m-th smallest element of a set of positions
NthPosition(P, m) ==
    CHOOSE i \in P : Cardinality({ j \in P : j < i }) = m - 1

\* C9: each tier list is the first min(3, n) headphones of the ranked list
\* priced in that tier, in rank order, n being their number; so no list is
\* longer than 3 and a tier without a ranked headphone has an empty list.
C9_TierListsAreTopThree ==
    Shown =>
        \A k \in TierKeys :
            LET P == RankedPositions(k)
                n == Cardinality(P)
                list == recommendations[k]
            IN  /\ Len(list) = IF n < 3 THEN n ELSE 3
                /\ Len(list) <= 3
                /\ n = 0 => list = << >>
                /\ \A m \in 1..Len(list) :
                      list[m] = scored_headphones[NthPosition(P, m)].hp

\* C9 witness: a tier with four ranked headphones was cut to its first three,
\* while another tier has no ranked headphone and an empty list
C9_Witness ==
    /\ Shown
    /\ \E k \in TierKeys :
          /\ Cardinality(RankedPositions(k)) = 4
          /\ Len(recommendations[k]) = 3
    /\ \E k \in TierKeys :
          /\ RankedPositions(k) = {}
          /\ recommendations[k] = << >>

----------------------------------------------------------------------------
(* C10 *)

\* C10: every headphone of a tier list has get_category equal to the list's
\* key, and no headphone is in two tier lists.
C10_TierPartition ==
    Shown =>
        /\ \A k \in TierKeys :
              \A i \in 1..Len(recommendations[k]) :
                  get_category(recommendations[k][i]) = k
        /\ \A k1, k2 \in TierKeys :
              k1 # k2 =>
                  Range(recommendations[k1]) \cap Range(recommendations[k2]) = {}

\* C10 witness: a result with a headphone in each of the three lists, the
\* boundary prices 150 and 400 among them
C10_Witness ==
    /\ Shown
    /\ \A k \in TierKeys : recommendations[k] # << >>
    /\ \E i \in 1..Len(recommendations["Best of Both"]) :
          recommendations["Best of Both"][i].price \in {150, 400}

----------------------------------------------------------------------------
(* The result as the properties read it *)

\* the two alphabets, letter by letter
UpperLetters ==
    << "A", "B", "C", "D", "E", "F", "G", "H", "I", "J", "K", "L", "M",
       "N", "O", "P", "Q", "R", "S", "T", "U", "V", "W", "X", "Y", "Z" >>
LowerLetters ==
    << "a", "b", "c", "d", "e", "f", "g", "h", "i", "j", "k", "l", "m",
       "n", "o", "p", "q", "r", "s", "t", "u", "v", "w", "x", "y", "z" >>

\* two characters are the same, or the two cases of one letter
SameLetter(c, d) ==
    \/ c = d
    \/ \E i \in 1..Len(UpperLetters) : {c, d} = {UpperLetters[i], LowerLetters[i]}

\* two strings are equal when letter case is ignored
EqualIgnoringCase(a, b) ==
    /\ Len(a) = Len(b)
    /\ \A i \in 1..Len(a) : SameLetter(a[i], b[i])

\* a is an initial part of b, or b of a, letter case ignored, and the two
\* are not equal
PartialMatch(a, b) ==
    /\ Len(a) # Len(b)
    /\ LET n == IF Len(a) < Len(b) THEN Len(a) ELSE Len(b)
       IN  EqualIgnoringCase(SubSeq(a, 1, n), SubSeq(b, 1, n))

\* the headphones of the three tier lists
TierUnion == UNION { Range(recommendations[k]) : k \in TierKeys }

\* the tier lists one after the other: Budget-Friendly, Best of the Line,
\* Best of Both
TierConcat ==
    recommendations["Budget-Friendly"] \o recommendations["Best of the Line"]
        \o recommendations["Best of Both"]

\* the highlight is present
HasHighlight == most_reviewed # NoHeadphone

\* user_rating * user_reviews
ReviewProduct(hp) == hp.user_rating * hp.user_reviews

\* the headphones that the ranked list holds and the tier lists do not
CutFromTiers ==
    { scored_headphones[i].hp : i \in 1..Len(scored_headphones) } \ TierUnion

----------------------------------------------------------------------------
(* C11 *)

\* C11: every headphone of every tier list, and the highlight if there is
\* one, has a use case equal to the requested one when letter case is
\* ignored; a catalog headphone whose use case differs from it, also one
\* whose use case is only a part of it, is in no tier list and is not the
\* highlight.
C11_UseCaseExact ==
    Shown =>
        /\ \A hp \in TierUnion :
              EqualIgnoringCase(hp.use_case, selected_use_case)
        /\ HasHighlight =>
              EqualIgnoringCase(most_reviewed.use_case, selected_use_case)
        /\ \A i \in 1..Len(headphones) :
              ~EqualIgnoringCase(headphones[i].use_case, selected_use_case) =>
                  /\ headphones[i] \notin TierUnion
                  /\ headphones[i] # most_reviewed

\* C11 witness: "workout" was requested; the lists hold a headphone labelled
\* "Workout" and one labelled "workout", and the catalog has a headphone
\* labelled "Work", with more reviews than the highlight, that is in no list
C11_Witness ==
    /\ Shown
    /\ selected_use_case = Str_workout
    /\ HasHighlight
    /\ \E hp \in TierUnion : hp.use_case = Str_Workout
    /\ \E hp \in TierUnion : hp.use_case = Str_workout
    /\ \E i \in 1..Len(headphones) :
          /\ PartialMatch(headphones[i].use_case, selected_use_case)
          /\ headphones[i] \notin TierUnion
          /\ ReviewProduct(headphones[i]) > ReviewProduct(most_reviewed)

----------------------------------------------------------------------------
(* C12 *)

\* C12: the highlight is absent exactly when the three tier lists are all
\* empty; when present it is in one of the tier lists (as they are after the
\* cut to three), and no headphone of the tier lists has a greater
\* user_rating * user_reviews.
C12_HighlightIsMaximalInUnion ==
    Shown =>
        /\ ~HasHighlight <=> TierUnion = {}
        /\ HasHighlight =>
              /\ most_reviewed \in TierUnion
              /\ \A hp \in TierUnion :
                    ReviewProduct(hp) <= ReviewProduct(most_reviewed)

\* C12 witness: the highlight is not the headphone with the most reviews of
\* the lists, and a ranked headphone that the cut removed from its list has
\* a greater product than the highlight
C12_Witness ==
    /\ Shown
    /\ HasHighlight
    /\ \E hp \in TierUnion : hp.user_reviews > most_reviewed.user_reviews
    /\ \E hp \in CutFromTiers :
          ReviewProduct(hp) > ReviewProduct(most_reviewed)

----------------------------------------------------------------------------
(* C13 *)

\* C13: the highlight is the first headphone with the maximal
\* user_rating * user_reviews in the tier lists taken in the order
\* Budget-Friendly, Best of the Line, Best of Both, each in rank order.
C13_HighlightFirstOfTies ==
    (Shown /\ HasHighlight) =>
        \E i \in 1..Len(TierConcat) :
            /\ TierConcat[i] = most_reviewed
            /\ \A j \in 1..Len(TierConcat) :
                  ReviewProduct(TierConcat[j]) = ReviewProduct(most_reviewed)
                      => i <= j

\* the position of a headphone in the ranked list
RankOf(hp) ==
    CHOOSE i \in 1..Len(scored_headphones) : scored_headphones[i].hp = hp

\* C13 witness: three headphones tie on the maximal product, one in each
\* list; the highlight is the one of the Budget-Friendly list although both
\* others are ranked above it, and the one of Best of Both is ranked above
\* the one of Best of the Line
C13_Witness ==
    /\ Shown
    /\ HasHighlight
    /\ most_reviewed \in Range(recommendations["Budget-Friendly"])
    /\ \E p \in Range(recommendations["Best of the Line"]) :
       \E b \in Range(recommendations["Best of Both"]) :
          /\ ReviewProduct(p) = ReviewProduct(most_reviewed)
          /\ ReviewProduct(b) = ReviewProduct(most_reviewed)
          /\ RankOf(b) < RankOf(p)
          /\ RankOf(p) < RankOf(most_reviewed)

\* C13 second case, ties inside one list: two headphones of one list tie on
\* the maximal product and the highlight is the one ranked first, which comes
\* later in the catalog
C13_WitnessSameTier ==
    /\ Shown
    /\ HasHighlight
    /\ \E hp \in Range(recommendations["Best of Both"]) :
          /\ hp # most_reviewed
          /\ most_reviewed \in Range(recommendations["Best of Both"])
          /\ ReviewProduct(hp) = ReviewProduct(most_reviewed)
          /\ CatalogIndex(hp) < CatalogIndex(most_reviewed)

----------------------------------------------------------------------------
(* C14 *)

\* no headphone of the catalog has the requested use case, letter case ignored
NoneMatches ==
    \A i \in 1..Len(headphones) :
        ~EqualIgnoringCase(headphones[i].use_case, selected_use_case)

\* C14: a call with five distinct songs and a use case, on a catalog (empty
\* or not) of which no headphone has that use case, ends without raising,
\* with three empty tier lists and no highlight.
C14_NoMatchGivesEmptyResult ==
    (Called /\ ValidSelection(selected_songs) /\ UseCaseGiven /\ NoneMatches)
        => /\ Shown
           /\ raised = "none"
           /\ \A k \in TierKeys : recommendations[k] = << >>
           /\ ~HasHighlight

\* C14 witness: "workout" was requested with five distinct songs on a catalog
\* that is not empty and has no workout headphone; the result is empty
C14_Witness ==
    /\ Shown
    /\ ValidSelection(selected_songs)
    /\ selected_use_case = Str_workout
    /\ headphones # << >>
    /\ NoneMatches
    /\ TierUnion = {}
    /\ ~HasHighlight

\* C14 second case: the same on the empty catalog
C14_WitnessEmptyCatalog ==
    /\ Shown
    /\ ValidSelection(selected_songs)
    /\ selected_use_case = Str_workout
    /\ headphones = << >>
    /\ TierUnion = {}
    /\ ~HasHighlight

----------------------------------------------------------------------------
(* Calls of the methods of Headphone and Song, as the properties read them *)

\* matches_use_case has returned
Answered == pc = "answered"

\* a constructor call has ended, either way
Constructed == raw # NoRaw /\ pc # "ready"

\* a Headphone was made
HeadphoneMade == pc \in {"made", "answered"} /\ made.class = "Headphone"

\* the raw value is the string "Yes", letter for letter
IsLiteralYes(x) == x.kind = "str" /\ x.s = << "Y", "e", "s" >>

\* a raw value that is no number in any reading: None, or a string without
\* a digit
Unparsable(x) ==
    \/ x.kind = "NoneType"
    \/ x.kind = "str" /\ \A i \in 1..Len(x.s) : ~IsDigit(x.s[i])

\* the numeric fields of the arguments of a constructor
NumberFields(r) ==
    IF r.class = "Headphone" THEN { "price", "user_rating", "user_reviews" }
    ELSE SongNumberFields

HasUnparsableNumber(r) == \E f \in NumberFields(r) : Unparsable(r[f])

\* an unparsable number makes the constructor raise one of Python's own
\* exceptions, and no object is made
UnparsableRaisesBuiltinError ==
    (Constructed /\ HasUnparsableNumber(raw))
        => /\ pc = "raised"
           /\ raised \in {"ValueError", "TypeError"}
           /\ made = NoObject

----------------------------------------------------------------------------
(* C18 *)

\* C18: matches_use_case(case) returns true exactly when case equals the
\* headphone's use_case with letter case ignored: a Workout headphone
\* matches "Workout" and "workout", not "Studio", and a string that is only
\* a part of the use case (or of which the use case is a part) does not
\* match.
C18_MatchesUseCaseIgnoresCase ==
    Answered =>
        /\ answer <=> EqualIgnoringCase(made.use_case, asked)
        /\ PartialMatch(made.use_case, asked) => ~answer
        /\ made.use_case = Str_Workout =>
              /\ asked \in {Str_Workout, Str_workout} => answer
              /\ asked = Str_Studio => ~answer

\* C18 witness: a headphone made with use case "Workout" was asked for
\* "workout" and answered true
C18_Witness ==
    /\ Answered
    /\ made.use_case = Str_Workout
    /\ asked = Str_workout
    /\ answer

\* C18 other cases: "Studio" and the partial "Work" are refused by a Workout
\* headphone
C18_WitnessRefused ==
    /\ Answered
    /\ made.use_case = Str_Workout
    /\ asked \in {Str_Studio, Str_Work}
    /\ ~answer

----------------------------------------------------------------------------
(* C19 *)

\* C19: a constructed Headphone has noise_cancellation true exactly when the
\* raw noise_cancellation is the string "Yes", letter for letter; "yes",
\* "YES", "No", a boolean and an empty cell give false.
C19_NoiseCancellationOnlyYes ==
    HeadphoneMade =>
        (made.noise_cancellation <=> IsLiteralYes(raw.noise_cancellation))

\* C19 witness: a Headphone was made from "yes" or "YES" and its
\* noise_cancellation is false
C19_Witness ==
    /\ HeadphoneMade
    /\ raw.noise_cancellation \in { RText(Str_yes), RText(Str_YES) }
    /\ ~made.noise_cancellation

\* C19 other cases: "Yes" gives true; the boolean True gives false
C19_WitnessYes ==
    /\ HeadphoneMade
    /\ raw.noise_cancellation = RText(Str_Yes)
    /\ made.noise_cancellation

C19_WitnessBoolean ==
    /\ HeadphoneMade
    /\ raw.noise_cancellation = RBool(TRUE)
    /\ ~made.noise_cancellation

----------------------------------------------------------------------------
(* C20 *)

\* C20 (as claimed): a constructor call of Song or Headphone in which a
\* numeric field cannot be parsed raises ValidationError, and no object is
\* made.
C20_UnparsableRaisesValidationError ==
    (Constructed /\ HasUnparsableNumber(raw))
        => /\ pc = "raised"
           /\ raised = "ValidationError"
           /\ made = NoObject

----------------------------------------------------------------------------
(* Two calls, as the properties read them *)

\* a second call has ended
CalledTwice == earlier.made /\ pc \in {"shown", "raised"}

\* what the present call came to is what the earlier call came to
SameResultAsEarlier ==
    /\ pc = earlier.pc
    /\ raised = earlier.raised
    /\ pc = "shown" =>
          /\ scored_headphones = earlier.scored_headphones
          /\ recommendations = earlier.recommendations
          /\ most_reviewed = earlier.most_reviewed

\* the sum of one field over a selection
RECURSIVE SumOf(_, _)
SumOf(songs, field) ==
    IF songs = << >> THEN 0 ELSE songs[1][field] + SumOf(Tail(songs), field)

\* two selections have the same arithmetic mean of a field
SameMean(a, b, field) ==
    /\ a # << >>
    /\ b # << >>
    /\ SumOf(a, field) * Len(b) = SumOf(b, field) * Len(a)

\* the attributes of a song that the scoring is said not to use
UnusedAttributes ==
    { "danceability", "valence", "tempo", "acousticness", "track_popularity" }

----------------------------------------------------------------------------
(* C15 *)

----------------------------------------------------------------------------
(* C16 *)

----------------------------------------------------------------------------
(* The catalog and the selection across the screens *)

\* a step in which generate_recommendations runs
GenerateStep == pc = "ready" /\ pc' \in {"shown", "raised"}

\* C17: no step of the screens (genre selection, loading, toggling,
\* navigation, recommendation, restart) adds, removes, reorders or modifies a
\* headphone of the catalog, and the step that generates the recommendations
\* also leaves the selected songs as they were.
C17_CatalogAndSelectionKept ==
    [][ /\ headphones' = headphones
        /\ GenerateStep => selected_songs' = selected_songs ]_vars

\* back on the welcome screen after START OVER: a genre was loaded, five
\* songs were toggled, a recommendation was generated from a non-empty
\* catalog and shown, and restart has run
C17_Witness ==
    /\ screen = "welcome"
    /\ loads > 0
    /\ headphones # << >>
    /\ selected_songs = << >>

----------------------------------------------------------------------------
(* C21 *)

\* a call Headphone(...) with the nine values up to noise_cancellation
NineValuesGiven ==
    /\ raw # NoRaw
    /\ raw.class = "Headphone"
    /\ MissingArguments(raw) = { "user_rating", "user_reviews" }

\* what the code does with the nine values: the call raises TypeError and
\* makes no object
NineValuesRaiseTypeError ==
    (NineValuesGiven /\ pc # "ready")
        => /\ pc = "raised"
           /\ raised = "TypeError"
           /\ made = NoObject

\* C21: a Headphone constructed from the nine values headphone_id .. 
\* noise_cancellation, without user_rating and user_reviews, is made: it has
\* the brand given, noise_cancellation true for "Yes", and a
\* matches_use_case that answers.
C21_NineValuesConstruct ==
    (NineValuesGiven /\ pc # "ready")
        => /\ pc \in {"made", "answered"}
           /\ made.class = "Headphone"
           /\ made.brand = raw.brand
           /\ made.noise_cancellation
                 <=> IsLiteralYes(raw.noise_cancellation)
           /\ pc = "answered"
                 => (answer <=> EqualIgnoringCase(made.use_case, asked))

----------------------------------------------------------------------------
(* C22 *)

\* C22: in every state of the screens, whatever genres were chosen, songs
\* toggled, BACK and CONTINUE pressed and restarts made, no two of the
\* selected songs have the same track_id, also after the song list was
\* loaded again.
C22_NoTwoSelectedWithSameTrack ==
    \A i, j \in 1..Len(selected_songs) :
        i # j => selected_songs[i].track_id # selected_songs[j].track_id

\* what the code keeps: no Song object is selected twice
NoObjectSelectedTwice ==
    \A i, j \in 1..Len(selected_songs) :
        i # j => selected_songs[i] # selected_songs[j]

----------------------------------------------------------------------------
(* C23 *)

\* C23: whatever the sequence of events of the screens,
\* generate_recommendations runs only with exactly 5 selected songs and with
\* a use case that is one of the labels Workout, Casual, Studio, Gaming (none
\* of them empty), and the song screen is not left for the use case screen
\* while fewer than 5 songs are selected.
C23_GenerateOnlyWithFiveAndLabel ==
    [][ /\ GenerateStep =>
              /\ Len(selected_songs) = 5
              /\ selected_use_case' \in
                     { Str_Workout, Str_Casual, Str_Studio, Str_Gaming }
              /\ selected_use_case' # Str_Empty
        /\ (screen = "songs" /\ Len(selected_songs) < 5)
              => screen' # "use_case" ]_vars

\* C23 witness: the recommendations are on display, generated from five
\* selected songs and the use case of a card
C23_Witness ==
    /\ screen = "results"
    /\ pc = "shown"
    /\ Len(selected_songs) = 5
    /\ selected_use_case \in use_cases

----------------------------------------------------------------------------
(* C24 *)

\* the constructor refuses the row
Refused(row) ==
    IF row.class = "Headphone" THEN Headphone__init__(row).exc # "none"
    ELSE Song__init__(row).exc # "none"

\* the rows of a table that the constructor accepts, in table order
Accepted(table) == SelectSeq(table, LAMBDA row : ~Refused(row))

\* the rows of the genre
OfGenre(table, genre) ==
    SelectSeq(table, LAMBDA row : row.playlist_genre = genre)

\* the song list of the genre chosen is loaded and on display or behind it
SongsLoaded == screen \in {"songs", "use_case", "results"}

\* C24: a row of the table that the constructor refuses is passed over and
\* the load goes on.  The catalog has one Headphone for every accepted row of
\* headphones.csv, in the order of the rows, and none for a refused row; the
\* loaded song list has one Song for every accepted row of the genre, in the
\* order of the rows, and none for a refused row.
C24_RefusedRowsSkipped ==
    /\ LET rows == Accepted(headphones_df)
       IN  /\ Len(headphones) = Len(rows)
           /\ \A i \in 1..Len(rows) :
                  headphones[i] = Headphone__init__(rows[i]).obj
           /\ \A i \in 1..Len(headphones_df) :
                  Refused(headphones_df[i]) =>
                      \A j \in 1..Len(headphones) :
                          headphones[j].headphone_id
                              # headphones_df[i].headphone_id
    /\ SongsLoaded =>
           LET of_genre == OfGenre(songs_df, selected_genre)
               rows == Accepted(of_genre)
           IN  /\ Len(filtered_songs) = Len(rows)
               /\ \A i \in 1..Len(rows) :
                      /\ filtered_songs[i].track_id = rows[i].track_id
                      /\ filtered_songs[i].energy
                             = Song__init__(rows[i]).obj.energy
               /\ \A i \in 1..Len(of_genre) :
                      Refused(of_genre[i]) =>
                          \A j \in 1..Len(filtered_songs) :
                              filtered_songs[j].track_id
                                  # of_genre[i].track_id

\* some row is refused and has accepted rows before it and after it
RefusedBetween(table) ==
    \E i, j, k \in 1..Len(table) :
        /\ i < j /\ j < k
        /\ ~Refused(table[i]) /\ Refused(table[j]) /\ ~Refused(table[k])

\* C24 witness: both tables have a refused row between accepted ones, and
\* the catalog and the song list of the genre are loaded without them
C24_Witness ==
    /\ screen = "songs"
    /\ RefusedBetween(headphones_df)
    /\ RefusedBetween(OfGenre(songs_df, selected_genre))
    /\ Len(headphones) = 4
    /\ Len(filtered_songs) = 3

----------------------------------------------------------------------------
(* C25 *)

\* the songs without the given one, the others in their order
Without(songs, song) == SelectSeq(songs, LAMBDA x : x # song)

\* the rows of the song list that can be clicked
Clickable ==
    IF screen = "songs" THEN Range(current_display_songs) ELSE {}

\* what a click on the row of the song does to the selection, as claimed
ToggleAsClaimed(song) ==
    LET after == Toggled(selected_songs, song)
    IN  /\ song \in Range(selected_songs) =>
              after = Without(selected_songs, song)
        /\ (song \notin Range(selected_songs) /\ Len(selected_songs) < 5) =>
              after = Append(selected_songs, song)
        /\ (song \notin Range(selected_songs) /\ Len(selected_songs) >= 5) =>
              after = selected_songs

\* on the song screen the selection changes by a song of the list being
\* taken out or being put at the end
SelectionChangesByToggle ==
    (screen = "songs" /\ screen' = "songs"
                      /\ selected_songs' # selected_songs)
        => \E song \in Range(current_display_songs) :
               \/ /\ song \in Range(selected_songs)
                  /\ selected_songs' = Without(selected_songs, song)
               \/ /\ song \notin Range(selected_songs)
                  /\ Len(selected_songs) < 5
                  /\ selected_songs' = Append(selected_songs, song)

\* C25: toggle_song_selection_list(song) takes the song out when it is
\* selected, puts it at the end when it is not selected and fewer than 5
\* songs are, and leaves the selection as it is when it is not selected and
\* 5 songs are; so the selection never has more than 5 songs.
C25_ToggleAndLimit ==
    /\ [](/\ Len(selected_songs) <= 5
          /\ \A song \in Clickable : ToggleAsClaimed(song))
    /\ [][SelectionChangesByToggle]_vars

\* C25 witness: five songs are selected and the list on display has both a
\* selected song and one that is not, so that a click is refused and
\* another takes a song out
C25_Witness ==
    /\ screen = "songs"
    /\ Len(selected_songs) = 5
    /\ \E song \in Range(current_display_songs) :
           song \notin Range(selected_songs)
    /\ \E song \in Range(current_display_songs) :
           song \in Range(selected_songs)

----------------------------------------------------------------------------
(* C26 *)

\* a step in which restart runs: START OVER leaves the results screen
RestartStep == screen = "results" /\ screen' # "results"

\* the load in which a song was constructed
LoadOf(song) == song.oid \div 10

\* C26: restart leaves selected_genre and selected_use_case None,
\* selected_songs, filtered_songs and current_display_songs empty and the
\* welcome screen on display, from every state in which START OVER can be
\* clicked; and every song of a recommendation generated after a restart was
\* loaded and selected after that restart, with a use case chosen after it.
C26_RestartClearsSelection ==
    [][ /\ RestartStep =>
              /\ selected_genre' = None
              /\ selected_use_case' = None
              /\ selected_songs' = << >>
              /\ filtered_songs' = << >>
              /\ current_display_songs' = << >>
              /\ screen' = "welcome"
        /\ (earlier.made /\ screen # "results" /\ screen # "use_case")
              => selected_use_case = None
        /\ (GenerateStep /\ earlier.made) =>
              \A i \in 1..Len(selected_songs) :
                  LoadOf(selected_songs[i]) > earlier.loads ]_vars

\* C26 witness: a second recommendation is on display, generated from five
\* songs selected after a restart that followed a first recommendation
C26_Witness ==
    /\ earlier.made
    /\ screen = "results"
    /\ pc = "shown"
    /\ Len(selected_songs) = 5
    /\ loads > earlier.loads

----------------------------------------------------------------------------
(* C27 *)

\* the tracks that the table has under the genre
TracksOfGenre(genre) ==
    { songs_df[i].track_id :
          i \in { j \in 1..Len(songs_df) : songs_df[j].playlist_genre = genre } }

\* a step of toggle_song_selection_list: a click on a row of the song list
ToggleStep ==
    /\ screen = "songs"
    /\ screen' = "songs"
    /\ \E song \in Range(current_display_songs) :
           selected_songs' = Toggled(selected_songs, song)

\* C27: selected_songs changes in steps of toggle_song_selection_list and of
\* restart only; a click on a genre card, the loader, the search, LOAD MORE,
\* BACK and CONTINUE leave it as it is, so the songs selected under one genre
\* are still selected when the songs of another genre are on display, and
\* CONTINUE counts them.
C27_OnlyToggleAndRestartChangeSelection ==
    [][ /\ selected_songs' # selected_songs => (ToggleStep \/ RestartStep)
        /\ ( \/ selected_genre' \notin { selected_genre, None }
             \/ filtered_songs' # filtered_songs /\ ~RestartStep
             \/ current_display_songs' # current_display_songs
                    /\ ~RestartStep /\ ~ToggleStep
             \/ screen' # screen /\ ~RestartStep )
              => selected_songs' = selected_songs
        /\ (screen = "songs" /\ screen' = "use_case")
              => Len(selected_songs) = 5 ]_vars

\* C27 witness: CONTINUE has been passed with five songs of which one was
\* selected under another genre than the one now chosen
C27_Witness ==
    /\ screen = "use_case"
    /\ selected_genre # None
    /\ Len(selected_songs) = 5
    /\ \E i \in 1..Len(selected_songs) :
           selected_songs[i].track_id \notin TracksOfGenre(selected_genre)
    /\ \E i \in 1..Len(selected_songs) :
           selected_songs[i].track_id \in TracksOfGenre(selected_genre)

----------------------------------------------------------------------------
(* C28 *)

\* a load_songs thread is running
LoaderActive == loader # << >>

\* a step that shows the song screen for a load_songs thread that has ended
ShowAfterLoad == screen = "loading" /\ screen' = "songs"

\* the accepted rows of the genre chosen, in table order
AcceptedOfGenre == Accepted(OfGenre(songs_df, selected_genre))

\* at most one load_songs thread runs; while it runs the loading screen is on
\* display and show_song_selection is not pending; at most one
\* show_song_selection is pending
OneLoader ==
    /\ Len(loader) <= 1
    /\ LoaderActive => (screen = "loading" /\ after_queue = 0)
    /\ after_queue <= 1
    /\ after_queue = 1 => screen = "loading"
    /\ screen = "loading" => (LoaderActive \/ after_queue = 1)

\* while a load_songs thread runs, the steps taken are its own: the fields
\* of the handlers stay as they are and filtered_songs is written by the
\* thread alone
OnlyLoaderRuns ==
    LoaderActive =>
        /\ load_songs
        /\ UNCHANGED << selected_songs, selected_use_case, selected_genre,
                        screen, current_display_songs, song_search_var,
                        loads, pc >>

\* the song screen is shown once for a thread that has ended, with the
\* accepted rows of the genre in table order
ShownOnceWithGenreRows ==
    /\ ShowAfterLoad =>
          /\ after_queue = 1
          /\ after_queue' = 0
          /\ ~LoaderActive
          /\ filtered_songs' = filtered_songs
          /\ Len(filtered_songs') = Len(AcceptedOfGenre)
          /\ \A i \in 1..Len(AcceptedOfGenre) :
                 /\ filtered_songs'[i].track_id = AcceptedOfGenre[i].track_id
                 /\ filtered_songs'[i] =
                        NewSong(Song__init__(AcceptedOfGenre[i]).obj,
                                CHOOSE j \in 1..Len(songs_df) :
                                    songs_df[j] = AcceptedOfGenre[i],
                                loads)
    /\ (after_queue' < after_queue) => ShowAfterLoad

\* C28: after select_genre(g) at most one load_songs thread is running at
\* any time, and while it runs no handler of the screens that reads or writes
\* filtered_songs or selected_songs takes a step; when the thread has ended
\* the song screen is eventually shown, once, with filtered_songs the Song
\* objects of the rows of genre g that the constructor accepted, in table
\* order.
C28_OneLoaderThenSongScreen ==
    /\ []OneLoader
    /\ [][OnlyLoaderRuns /\ ShownOnceWithGenreRows]_vars
    /\ (screen = "loading") ~> (screen = "songs")

\* C28 witness: the song screen shown after a second load, with the rows of
\* the genre of which one was refused
C28_Witness ==
    /\ screen = "songs"
    /\ loads = 2
    /\ ~LoaderActive
    /\ after_queue = 0
    /\ filtered_songs # << >>
    /\ Len(filtered_songs) < Len(OfGenre(songs_df, selected_genre))

====
